---- MODULE Spec2Model ----
(***************************************************************************)
(* A state-machine model of factor.py: the three primality tests           *)
(* (miller_rabin_test, is_prime_baillie_psw, is_prime_aks), the two        *)
(* factoring methods (factorize_brute_force, pollards_rho_factorize) and   *)
(* the factor_num / get_factor_method dispatch.                            *)
(*                                                                         *)
(* A call is started from pc = "idle", runs through the loop positions of  *)
(* the called function and ends in pc = "done" with its outcome in ret     *)
(* (boolean result), factors (list result) and raised (the exception that  *)
(* ended the call, "none" when it returned).                               *)
(***************************************************************************)
EXTENDS Integers, Sequences, FiniteSets, TLC

VARIABLES
    pc,       \* position of the running call
    fn,       \* the function that was called
    method,   \* factor_num's method code (0 for a direct call)
    arg,      \* the argument n as passed by the caller
    n,        \* the local n (both factoring methods overwrite it)
    k,        \* miller_rabin_test: number of rounds
    r,        \* miller_rabin_test: n - 1 = 2^r * d
    d,        \* miller_rabin_test: odd part of n - 1; pollard_rho: current gcd
    a,        \* miller_rabin_test: last base drawn (0: none yet)
    i,        \* loop index (range(k) in Miller-Rabin, range(2, hi) in brute force)
    hi,       \* factorize_brute_force: end of the range, computed once
    x,        \* pollard_rho: tortoise
    y,        \* pollard_rho: hare
    factors,  \* the factor list being built
    ret,      \* boolean returned by a primality test
    raised    \* "none", "ValueError" or "TypeError"

vars == <<pc, fn, method, arg, n, k, r, d, a, i, hi, x, y, factors, ret, raised>>

----------------------------------------------------------------------------
(* Bounds of the model *)

MaxN == 1000       \* largest argument of the one-step primality tests
NegN == 3          \* arguments start at -NegN
MaxMR == 80        \* largest argument of miller_rabin_test
MaxF == 400        \* largest argument of the factoring methods
MaxK == 2          \* explicit round counts are 0..MaxK
MaxMethod == 3     \* method codes are 1..MaxMethod

(* Program constants *)

DefaultK == 5

\* 360 and 8051 are the documented examples; 10403 is the number the script factors
Examples == {360, 8051, 10403}

PrimeInputs == (0 - NegN)..MaxN
MRInputs == (0 - NegN)..MaxMR
FactorInputs == ((0 - NegN)..MaxF) \cup Examples
Ks == (0..MaxK) \cup {DefaultK}
Methods == 1..MaxMethod

----------------------------------------------------------------------------
(* Arithmetic substrate *)

\* floor of the square root of m >= 0: int(math.sqrt(m)), int(m**0.5), math.isqrt(m)
int_sqrt(m) == CHOOSE s \in 0..m : s * s <= m /\ (s + 1) * (s + 1) > m

\* the built-in pow(b, e, m)
RECURSIVE pow(_, _, _)
pow(b, e, m) ==
    IF e = 0 THEN 1 % m
    ELSE IF e % 2 = 0 THEN pow((b * b) % m, e \div 2, m)
    ELSE (b * pow(b, e - 1, m)) % m

\* sympy.isprime: primality by definition
IsPrime(m) == m > 1 /\ \A q \in 2..(m - 1) : q * q > m \/ m % q # 0

bool_str(b) == IF b THEN "True" ELSE "False"

----------------------------------------------------------------------------
(* SECTION 1A: Miller-Rabin primality test *)

\* "if n <= 3: return True", reached only when n > 1
mr_small_off_by_one(m) == m <= 2
mr_small(m) == m <= 3

\* "while d % 2 == 0: r += 1; d //= 2", from r, d = 0, n - 1; gives <<r, d>>
RECURSIVE decompose(_, _)
decompose(rr, dd) ==
    IF dd % 2 = 0 THEN decompose(rr + 1, dd \div 2) ELSE <<rr, dd>>

\* "for _ in range(cnt): x = pow(x, 2, n); if x == n - 1: return False" then
\* "return True"
RECURSIVE squarings(_, _, _)
squarings(xx, cnt, nn) ==
    IF cnt <= 0 THEN TRUE
    ELSE LET x2 == pow(xx, 2, nn)
         IN  IF x2 = nn - 1 THEN FALSE ELSE squarings(x2, cnt - 1, nn)

is_witness_short_loop(base, nn, rr, dd) ==
    LET x0 == pow(base, dd, nn)
    IN  IF x0 = 1 \/ x0 = nn - 1 THEN FALSE ELSE squarings(x0, rr - 2, nn)

\* the nested is_witness(a), with the enclosing n, r, d passed in
is_witness(base, nn, rr, dd) ==
    LET x0 == pow(base, dd, nn)
    IN  IF x0 = 1 \/ x0 = nn - 1 THEN FALSE ELSE squarings(x0, rr - 1, nn)

----------------------------------------------------------------------------
(* SECTION 1B: Baillie-PSW test *)

\* is_perfect_square(m): math.isqrt raises ValueError on a negative argument
is_perfect_square(m) ==
    IF m < 0 THEN "ValueError"
    ELSE IF int_sqrt(m) * int_sqrt(m) = m THEN "True" ELSE "False"

RECURSIVE td_loop_one_residue(_, _, _)
td_loop_one_residue(m, max_divisor, divisor) ==
    IF divisor <= max_divisor
    THEN IF m % divisor = 0 THEN FALSE
         ELSE td_loop_one_residue(m, max_divisor, divisor + 6)
    ELSE TRUE

\* "while divisor <= max_divisor: ... divisor += 6" then "return True"
RECURSIVE td_loop(_, _, _)
td_loop(m, max_divisor, divisor) ==
    IF divisor <= max_divisor
    THEN IF m % divisor = 0 \/ m % (divisor + 2) = 0 THEN FALSE
         ELSE td_loop(m, max_divisor, divisor + 6)
    ELSE TRUE

is_prime_trial_division(m) ==
    IF m < 2 THEN FALSE
    ELSE IF m = 2 \/ m = 3 THEN TRUE
    ELSE IF m % 2 = 0 \/ m % 3 = 0 THEN FALSE
    ELSE td_loop(m, int_sqrt(m), 5)

\* the outcome of is_prime_baillie_psw(m): "True", "False" or "ValueError"
is_prime_baillie_psw(m) ==
    IF m < 2 THEN "False"
    ELSE IF m = 2 \/ m = 3 \/ m = 5 THEN "True"
    ELSE IF m % 2 = 0 \/ m % 3 = 0 \/ m % 5 = 0 THEN "False"
    ELSE LET plus == is_perfect_square(5 * m * m + 4)
         IN  IF plus = "ValueError" THEN "ValueError"
             ELSE IF plus = "True" THEN "False"
             ELSE LET minus == is_perfect_square(5 * m * m - 4)
                  IN  IF minus = "ValueError" THEN "ValueError"
                      ELSE IF minus = "True" THEN "False"
                      ELSE bool_str(is_prime_trial_division(m))

----------------------------------------------------------------------------
(* SECTION 1C: AKS primality test *)

is_prime_aks(m) == bool_str(IsPrime(m))

----------------------------------------------------------------------------
(* SECTION 2: factoring methods *)

\* get_factor_method(method): the function selected, "None" after
\* "Invalid method selected."
get_factor_method(m) ==
    IF m = 1 THEN "factorize_brute_force"
    ELSE IF m = 2 THEN "pollards_rho_factorize"
    ELSE "None"

\* "int(n**0.5) + 1", the end of factorize_brute_force's range; for n < 0
\* n**0.5 is complex and int() raises TypeError
range_end_off_by_one(m) == int_sqrt(m)
range_end(m) == int_sqrt(m) + 1

\* the nested gcd(a, b): "while b != 0: a, b = b, a % b" then "return a"
RECURSIVE gcd(_, _)
gcd(aa, bb) == IF bb # 0 THEN gcd(bb, aa % bb) ELSE aa

\* f = lambda x: (x**2 + 1) % n
f(v, m) == (v * v + 1) % m

abs(v) == IF v < 0 THEN 0 - v ELSE v

\* "if n > 1: factors.append(n)", the end of factorize_brute_force
bf_tail_dropped(m, fs) == fs
bf_tail(m, fs) == IF m > 1 THEN Append(fs, m) ELSE fs

----------------------------------------------------------------------------
(* The state machine *)

Init ==
    /\ pc = "idle" /\ fn = "none" /\ method = 0 /\ arg = 0 /\ n = 0
    /\ k = 0 /\ r = 0 /\ d = 0 /\ a = 0 /\ i = 0 /\ hi = 0 /\ x = 0 /\ y = 0
    /\ factors = <<>> /\ ret = FALSE /\ raised = "none"

\* a call starts with fresh locals
Enter(func, m, num) ==
    /\ pc = "idle"
    /\ fn' = func /\ method' = m /\ arg' = num /\ n' = num
    /\ a' = 0 /\ x' = 0 /\ y' = 0 /\ factors' = <<>>

\* a call of a one-step function ends with the given outcome
Outcome(out) ==
    /\ pc' = "done"
    /\ ret' = (out = "True")
    /\ raised' = IF out \in {"True", "False"} THEN "none" ELSE out

\* miller_rabin_test(n, k) up to the first round
miller_rabin_test ==
    \E num \in MRInputs, rounds \in Ks :
        /\ Enter("miller_rabin_test", 0, num)
        /\ k' = rounds /\ i' = 0 /\ hi' = 0
        /\ IF num <= 1 THEN Outcome("False") /\ r' = 0 /\ d' = 0
           ELSE IF mr_small(num) THEN Outcome("True") /\ r' = 0 /\ d' = 0
           ELSE /\ r' = decompose(0, num - 1)[1]
                /\ d' = decompose(0, num - 1)[2]
                /\ pc' = "mr_loop" /\ ret' = FALSE /\ raised' = "none"

\* one round of "for _ in range(k)": random.randint(2, n - 2) raises ValueError
\* on an empty range, a witness ends the call with False
mr_round ==
    /\ pc = "mr_loop" /\ i < k
    /\ IF n - 2 < 2
       THEN /\ pc' = "done" /\ raised' = "ValueError"
            /\ UNCHANGED <<a, i, ret>>
       ELSE \E base \in 2..(n - 2) :
                /\ a' = base
                /\ IF is_witness(base, n, r, d)
                   THEN pc' = "done" /\ ret' = FALSE /\ i' = i
                   ELSE pc' = pc /\ ret' = ret /\ i' = i + 1
                /\ UNCHANGED raised
    /\ UNCHANGED <<fn, method, arg, n, k, r, d, hi, x, y, factors>>

\* the loop is over: "return True"
mr_return ==
    /\ pc = "mr_loop" /\ i >= k
    /\ pc' = "done" /\ ret' = TRUE
    /\ UNCHANGED <<fn, method, arg, n, k, r, d, a, i, hi, x, y, factors, raised>>

call_is_prime_baillie_psw ==
    \E num \in PrimeInputs :
        /\ Enter("is_prime_baillie_psw", 0, num)
        /\ Outcome(is_prime_baillie_psw(num))
        /\ k' = 0 /\ r' = 0 /\ d' = 0 /\ i' = 0 /\ hi' = 0

call_is_prime_aks ==
    \E num \in PrimeInputs :
        /\ Enter("is_prime_aks", 0, num)
        /\ Outcome(is_prime_aks(num))
        /\ k' = 0 /\ r' = 0 /\ d' = 0 /\ i' = 0 /\ hi' = 0

\* factor_num(method, num): test_func = get_factor_method(method), then
\* test_func(num) up to its first loop. Calling None raises TypeError, and so
\* does int(n**0.5) for n < 0.
factor_num ==
    \E m \in Methods, num \in FactorInputs :
        LET func == get_factor_method(m) IN
        /\ Enter(func, m, num)
        /\ k' = 0 /\ r' = 0 /\ d' = 0 /\ ret' = FALSE
        /\ IF func = "None"
           THEN pc' = "done" /\ raised' = "TypeError" /\ i' = 0 /\ hi' = 0
           ELSE IF func = "factorize_brute_force"
           THEN IF num < 0
                THEN pc' = "done" /\ raised' = "TypeError" /\ i' = 0 /\ hi' = 0
                ELSE pc' = "bf_loop" /\ raised' = "none" /\ i' = 2
                     /\ hi' = range_end(num)
           ELSE pc' = "rho_outer" /\ raised' = "none" /\ i' = 0 /\ hi' = 0

\* "while n % i == 0: factors.append(i); n //= i", one division
bf_divide ==
    /\ pc = "bf_loop" /\ i < hi /\ n % i = 0
    /\ factors' = Append(factors, i)
    /\ n' = n \div i
    /\ UNCHANGED <<pc, fn, method, arg, k, r, d, a, i, hi, x, y, ret, raised>>

\* i does not divide n: the for loop moves to the next i
bf_next ==
    /\ pc = "bf_loop" /\ i < hi /\ n % i # 0
    /\ i' = i + 1
    /\ UNCHANGED <<pc, fn, method, arg, n, k, r, d, a, hi, x, y, factors, ret, raised>>

\* the range is exhausted: "if n > 1: factors.append(n)" and "return factors"
bf_return ==
    /\ pc = "bf_loop" /\ i >= hi
    /\ factors' = bf_tail(n, factors)
    /\ pc' = "done"
    /\ UNCHANGED <<fn, method, arg, n, k, r, d, a, i, hi, x, y, ret, raised>>

\* "while n > 1:" entered: pollard_rho(n) starts with x, y, d = 2, 2, 1
rho_outer ==
    /\ pc = "rho_outer" /\ n > 1
    /\ x' = 2 /\ y' = 2 /\ d' = 1
    /\ pc' = "rho_inner"
    /\ UNCHANGED <<fn, method, arg, n, k, r, a, i, hi, factors, ret, raised>>

\* "while d == 1: x = f(x); y = f(f(y)); d = gcd(abs(x - y), n)", one pass
rho_step ==
    /\ pc = "rho_inner" /\ d = 1
    /\ x' = f(x, n)
    /\ y' = f(f(y, n), n)
    /\ d' = gcd(abs(x' - y'), n)
    /\ UNCHANGED <<pc, fn, method, arg, n, k, r, a, i, hi, factors, ret, raised>>

rho_found_keeps_n ==
    /\ pc = "rho_inner" /\ d # 1
    /\ factors' = Append(factors, d)
    /\ pc' = "rho_outer"
    /\ UNCHANGED <<fn, method, arg, n, k, r, d, a, i, hi, x, y, ret, raised>>

\* pollard_rho returns d: "factors.append(factor); n //= factor"
rho_found ==
    /\ pc = "rho_inner" /\ d # 1
    /\ factors' = Append(factors, d)
    /\ n' = n \div d
    /\ pc' = "rho_outer"
    /\ UNCHANGED <<fn, method, arg, k, r, d, a, i, hi, x, y, ret, raised>>

\* "while n > 1:" left: "return factors"
rho_return ==
    /\ pc = "rho_outer" /\ n <= 1
    /\ pc' = "done"
    /\ UNCHANGED <<fn, method, arg, n, k, r, d, a, i, hi, x, y, factors, ret, raised>>

\* the caller has the result; the next call starts from scratch
finish ==
    /\ pc = "done"
    /\ pc' = "idle" /\ fn' = "none" /\ method' = 0 /\ arg' = 0 /\ n' = 0
    /\ k' = 0 /\ r' = 0 /\ d' = 0 /\ a' = 0 /\ i' = 0 /\ hi' = 0 /\ x' = 0 /\ y' = 0
    /\ factors' = <<>> /\ ret' = FALSE /\ raised' = "none"

\* the steps of a call in progress
Step ==
    \/ mr_round \/ mr_return
    \/ bf_divide \/ bf_next \/ bf_return
    \/ rho_outer \/ rho_step \/ rho_found \/ rho_return

Next ==
    \/ miller_rabin_test
    \/ call_is_prime_baillie_psw
    \/ call_is_prime_aks
    \/ factor_num
    \/ mr_round \/ mr_return
    \/ bf_divide \/ bf_next \/ bf_return
    \/ rho_outer \/ rho_step \/ rho_found \/ rho_return
    \/ finish

Spec == Init /\ [][Next]_vars

\* a call that has started keeps running: the program is sequential and
\* nothing suspends it
FairSpec == Spec /\ WF_vars(Step)

----------------------------------------------------------------------------
(* Vocabulary of the properties *)

RECURSIVE Product(_)
Product(fs) == IF fs = <<>> THEN 1 ELSE Head(fs) * Product(Tail(fs))

AllPrime(fs) == \A j \in 1..Len(fs) : IsPrime(fs[j])

Returned(func) == pc = "done" /\ fn = func

PrimalityTests == {"miller_rabin_test", "is_prime_baillie_psw", "is_prime_aks"}
FactorMethods == {"factorize_brute_force", "pollards_rho_factorize"}

KnownPrimes == {2, 3, 5, 7, 11, 13, 17, 19, 23}
KnownComposites == {4, 6, 8, 9, 10, 12}

----------------------------------------------------------------------------
(* Properties *)

\* C1: for every n > 1 and both factoring methods the call returns a
\* non-empty list whose elements are all >= 2 and whose product is n.
C1_RoundTrip ==
    (pc = "done" /\ fn \in FactorMethods /\ arg > 1) =>
        /\ raised = "none"
        /\ Len(factors) > 0
        /\ \A j \in 1..Len(factors) : factors[j] >= 2
        /\ Product(factors) = arg

C1_Witness ==
    Returned("pollards_rho_factorize") /\ arg = 8051 /\ factors = <<97, 83>>

\* C2: for every n >= 2 every element of factorize_brute_force(n) is prime,
\* the cofactor appended after the loop included, and the product is n, so
\* the list is the prime factorization of n with multiplicity; 360 gives
\* 2, 2, 2, 3, 3, 5.
C2_TrialDivisionComplete ==
    (Returned("factorize_brute_force") /\ arg >= 2) =>
        /\ raised = "none"
        /\ AllPrime(factors)
        /\ Product(factors) = arg
        /\ arg = 360 => factors = <<2, 2, 2, 3, 3, 5>>

\* 10403 = 101 * 103: 103 is above the loop bound and is appended after it
C2_Witness ==
    Returned("factorize_brute_force") /\ arg = 10403 /\ hi = 102
        /\ factors = <<101, 103>>

\* C3: for every n > 1 every element of pollards_rho_factorize(n) is prime.
C3_RhoOnlyPrimes ==
    (Returned("pollards_rho_factorize") /\ arg > 1) => AllPrime(factors)

\* C4: each primality test (Miller-Rabin with its default round count, for
\* every sequence of bases) returns True on 2, 3, 5, 7, 11, 13, 17, 19, 23
\* and False on 4, 6, 8, 9, 10, 12.
C4_PrimalityConsistency ==
    (pc = "done" /\ fn \in PrimalityTests
        /\ (fn = "miller_rabin_test" => k = DefaultK)) =>
        /\ arg \in KnownPrimes => (raised = "none" /\ ret = TRUE)
        /\ arg \in KnownComposites => (raised = "none" /\ ret = FALSE)

\* C5: for every n >= 0 each primality test returns without raising (a
\* Miller-Rabin base is never drawn from an empty range), with False for
\* n = 0 and n = 1 and True for n = 2.
C5_PrimalityTotal ==
    /\ (pc = "mr_loop" /\ i < k) => 2 <= n - 2
    /\ (pc = "done" /\ fn \in PrimalityTests /\ arg >= 0) =>
        /\ raised = "none"
        /\ arg \in {0, 1} => ret = FALSE
        /\ arg = 2 => ret = TRUE

\* n = 4 draws its base from the one-element range [2, 2]
C5_Witness ==
    Returned("miller_rabin_test") /\ arg = 4 /\ a = 2 /\ ret = FALSE
        /\ raised = "none"

\* C6: for a prime n, any round count and any bases drawn from [2, n - 2],
\* no base drawn is a witness and miller_rabin_test returns True.
C6_MillerRabinNoFalseNegative ==
    (fn = "miller_rabin_test" /\ IsPrime(arg)) =>
        /\ pc = "done" => (raised = "none" /\ ret = TRUE)
        /\ a # 0 => ~is_witness(a, n, r, d)

C6_Witness ==
    Returned("miller_rabin_test") /\ arg = 37 /\ k = DefaultK /\ i = k
        /\ a # 0 /\ ret = TRUE

\* C7: for every n > 1 the inner loop of pollard_rho reaches d != 1, every
\* divisor found strictly decreases the remaining cofactor, the call of
\* pollards_rho_factorize returns, and for a prime n it returns [n].
C7_RhoTerminates ==
    /\ (pc = "rho_inner") ~> (pc = "rho_inner" /\ d # 1)
    /\ (fn = "pollards_rho_factorize" /\ arg > 1 /\ pc # "done")
           ~> Returned("pollards_rho_factorize")
    /\ [][(pc = "rho_inner" /\ pc' = "rho_outer") => (1 <= n' /\ n' < n)]_vars
    /\ []((Returned("pollards_rho_factorize") /\ IsPrime(arg)) =>
              (raised = "none" /\ n = 1 /\ factors = <<arg>>))

C7_Witness ==
    Returned("pollards_rho_factorize") /\ arg = 149 /\ factors = <<149>>

\* C8: for every n <= 1 both factoring methods return an empty or
\* one-element list and do not raise.
C8_OutOfDomainNoCrash ==
    (pc = "done" /\ method \in {1, 2} /\ arg <= 1) =>
        (raised = "none" /\ Len(factors) <= 1)

\* C9: a factoring request for a strategy other than brute force and
\* Pollard's rho (the elliptic-curve strategy) on a prime n returns [n]
\* without raising.
C9_EcmReturnsN ==
    (pc = "done" /\ method \in Methods \ {1, 2} /\ IsPrime(arg)) =>
        (raised = "none" /\ factors = <<arg>>)

\* C10: if is_prime_baillie_psw(n) returns True then n is prime.
C10_BailliePswNoFalsePositive ==
    (Returned("is_prime_baillie_psw") /\ ret = TRUE) => IsPrime(arg)

\* 199 passes the perfect-square exclusion and two passes of the wheel loop
C10_Witness ==
    Returned("is_prime_baillie_psw") /\ arg = 199 /\ ret = TRUE

====
